---- MODULE Spec2Model ----
(***************************************************************************)
(* kremlib/testlib.c: the test-support library of the code generator's     *)
(* test harness.  One process calls the library's functions one after the  *)
(* other; a call either returns to its caller or ends the process          *)
(* (exit(), or a fatal signal when the call runs into undefined            *)
(* behaviour).  Each action below is one whole call of one function.       *)
(***************************************************************************)
EXTENDS Integers, Naturals, Sequences, FiniteSets, TLC

\* ------------------------------------------------------------------------
\* Bounds of the model
\* ------------------------------------------------------------------------
\* Largest buffer size (in bytes) passed to print_buf / compare_and_print.
MaxSize == 2
\* Largest number of heap blocks the library may have left allocated.
MaxLive == 1

\* Bytes the buffers of TestLib_compare_and_print are filled with: 0x0a
\* (needs the zero padding) and 0xaf (two different letter digits).
ByteSample == {10, 175}

\* Bytes the buffer of print_buf is filled with: the smallest and the
\* largest byte and the last digit / first letter of each nibble.
PrintBufSample == {0, 9, 10, 175, 255}

\* 16-bit limbs the scalar arguments of the checks are built from.
LimbSample == {0, 1, 65535}

\* ------------------------------------------------------------------------
\* Program constants
\* ------------------------------------------------------------------------
\* <stdlib.h> EXIT_FAILURE, as used by exit(EXIT_FAILURE).
EXIT_FAILURE == 1
\* The exit code of a failed scalar check, exit(253).
CHECK_EXIT == 253
\* The null pointer.
NULL == 0

\* The fatal signals a store through a null pointer raises on the hosted
\* platforms the library is built for (it needs stdio and exit()).
FaultSignals == {"SIGSEGV", "SIGBUS"}

\* ------------------------------------------------------------------------
\* State
\* ------------------------------------------------------------------------
VARIABLES
  status,   \* "running", "exited" (exit() was called), "signalled" (killed)
  exit,     \* <<code>> once exit(code) was called, <<>> otherwise
  live,     \* number of heap blocks allocated by the library and not freed
  call,     \* the most recent call: function and arguments
  trace,    \* the events of the most recent call, in program order
  ret,      \* <<>>: the call did not return; <<v>>: it returned v (0: void)
  ofn, osize, olen, oi, opc, owrites, oub, ostep  \* the index arithmetic (below)

vars == <<status, exit, live, call, trace, ret,
          ofn, osize, olen, oi, opc, owrites, oub, ostep>>
mainVars == <<status, exit, live, call, trace, ret>>
offVars == <<ofn, osize, olen, oi, opc, owrites, oub, ostep>>

\* ------------------------------------------------------------------------
\* The machine a call runs on: the process and its heap
\* ------------------------------------------------------------------------
\* An event of a call.  ptr: the pointer involved (or NULL), n: a number
\* (length, offset, index, exit code), s: characters printed or stored.
Ev(kind, ptr, n, s) == [ev |-> kind, ptr |-> ptr, n |-> n, s |-> s]

\* The machine at the start of a call with l live blocks.  heap maps the
\* blocks this call allocated to their contents ("?" is indeterminate).
Machine(l) ==
  [status |-> "running", exit |-> <<>>, live |-> l, heap |-> <<>>,
   trace |-> <<>>]

Running(m) == m.status = "running"

Log(m, e) == [m EXCEPT !.trace = Append(@, e)]

\* exit(code): the process ends; nothing of the call runs afterwards.
Exit(m, code) ==
  IF ~Running(m) THEN m
  ELSE [Log(m, Ev("exit", NULL, code, <<>>)) EXCEPT
          !.status = "exited", !.exit = <<code>>]

\* A fatal signal: the process is killed.
Kill(m, sig) ==
  IF ~Running(m) THEN m
  ELSE [Log(m, Ev("signal", NULL, 0, <<sig>>)) EXCEPT !.status = "signalled"]

\* The pointer malloc(len) returns: blocks of a call are numbered 1, 2, ...
\* in allocation order; a failed allocation returns NULL.
MallocPtr(m, ok) == IF ok THEN Len(m.heap) + 1 ELSE NULL

\* malloc(len): on success a new block of len indeterminate bytes.
Malloc(m, len, ok) ==
  IF ~Running(m) THEN m
  ELSE IF ok
    THEN [Log(m, Ev("malloc", Len(m.heap) + 1, len, <<>>)) EXCEPT
            !.heap = Append(@, [k \in 1..len |-> "?"]),
            !.live = @ + 1]
    ELSE Log(m, Ev("malloc", NULL, len, <<>>))

\* free(p): free(NULL) does nothing.
Free(m, p) ==
  IF ~Running(m) THEN m
  ELSE IF p = NULL THEN Log(m, Ev("free", NULL, 0, <<>>))
  ELSE [Log(m, Ev("free", p, 0, <<>>)) EXCEPT !.live = @ - 1]

\* p[off] = ch.  A store through NULL or outside the block is undefined
\* behaviour: the process is killed by the signal sig.
Store(m, p, off, ch, sig) ==
  IF ~Running(m) THEN m
  ELSE LET m1 == Log(m, Ev("store", p, off, <<ch>>))
       IN IF p = NULL \/ off < 0 \/ off >= Len(m.heap[p])
            THEN Kill(m1, sig)
            ELSE [m1 EXCEPT !.heap[p][off + 1] = ch]

\* The C string at p: the characters before the first terminator.
RECURSIVE CStrFrom(_, _)
CStrFrom(block, k) ==
  IF k > Len(block) \/ block[k] = "NUL" THEN <<>>
  ELSE <<block[k]>> \o CStrFrom(block, k + 1)

\* printf / fprintf of one line; kind names the format, n its integer
\* argument, s the characters its %s argument (other than a label) printed.
Printf(m, kind, n, s) ==
  IF ~Running(m) THEN m ELSE Log(m, Ev(kind, NULL, n, s))

\* printf of a line whose %s argument is the C string at p.  Reading through
\* NULL is undefined behaviour: the process is killed by the signal sig.
PrintStr(m, kind, p, sig) ==
  IF ~Running(m) THEN m
  ELSE IF p = NULL THEN Kill(Log(m, Ev("load", NULL, 0, <<>>)), sig)
  ELSE Printf(m, kind, 0, CStrFrom(m.heap[p], 1))

\* ------------------------------------------------------------------------
\* sprintf(p + off, "%02x", v)
\* ------------------------------------------------------------------------
HexChars == <<"0", "1", "2", "3", "4", "5", "6", "7",
              "8", "9", "a", "b", "c", "d", "e", "f">>

\* %x: the lowercase hexadecimal digits of v, most significant first.
RECURSIVE HexDigits(_)
HexDigits(v) ==
  IF v < 16 THEN <<HexChars[v + 1]>>
  ELSE HexDigits(v \div 16) \o <<HexChars[(v % 16) + 1]>>

\* The format "%x": no minimum width, no padding.
Fmtx(v) == HexDigits(v)

\* %02x: at least two characters, padded on the left with "0".
Fmt02x(v) ==
  LET d == HexDigits(v) IN IF Len(d) < 2 THEN <<"0">> \o d ELSE d

\* The characters are stored one after the other from p + off on.
RECURSIVE StoreAll(_, _, _, _, _)
StoreAll(m, p, off, chars, sig) ==
  IF chars = <<>> THEN m
  ELSE StoreAll(Store(m, p, off, Head(chars), sig), p, off + 1,
                Tail(chars), sig)

\* sprintf stores the formatted characters and then a terminator.
Sprintf02x(m, p, off, v, sig) ==
  StoreAll(m, p, off, Fmt02x(v) \o <<"NUL">>, sig)

\* ------------------------------------------------------------------------
\* print_buf
\* ------------------------------------------------------------------------
\* for (int i = 0; i < size; ++i) sprintf(str + 2 * i, "%02x", buf[i]);
RECURSIVE PrintBufLoop(_, _, _, _, _, _)
PrintBufLoop(m, str, buf, i, size, sig) ==
  IF ~(i < size) THEN m
  ELSE PrintBufLoop(Sprintf02x(m, str, 2 * i, buf[i + 1], sig),
                    str, buf, i + 1, size, sig)

\* The block str is not freed before the function returns.
print_buf(m, buf, size, ok, sig) ==
  LET str == MallocPtr(m, ok)
      m1 == Malloc(m, 2 * size + 1, ok)
      m2 == PrintBufLoop(m1, str, buf, 0, size, sig)
      m3 == Store(m2, str, 2 * size, "NUL", sig)
  IN PrintStr(m3, "buf", str, sig)

\* ------------------------------------------------------------------------
\* TestLib_compare_and_print
\* ------------------------------------------------------------------------
\* The first loop: both hex strings are written, output's into str and
\* reference's into str_ref.
RECURSIVE FormatLoop(_, _, _, _, _, _, _, _)
FormatLoop(m, str, str_ref, reference, output, i, size, sig) ==
  IF ~(i < size) THEN m
  ELSE LET m1 == Sprintf02x(m, str, 2 * i, output[i + 1], sig)
           m2 == Sprintf02x(m1, str_ref, 2 * i, reference[i + 1], sig)
       IN FormatLoop(m2, str, str_ref, reference, output, i + 1, size, sig)

\* The two printf calls: the expected line, then the computed line.
PrintBoth(m, str, str_ref, sig) ==
  PrintStr(PrintStr(m, "expected", str_ref, sig), "computed", str, sig)

\* A second loop that walks the buffers from the last byte down.
RECURSIVE CompareLoopFromEnd(_, _, _, _, _)
CompareLoopFromEnd(m, reference, output, i, size) ==
  IF ~Running(m) \/ ~(i < size) THEN m
  ELSE LET j == size - 1 - i
           m1 == Log(m, Ev("cmp", NULL, j, <<>>))
       IN IF output[j + 1] # reference[j + 1]
            THEN Exit(Printf(m1, "differ", j, <<>>), EXIT_FAILURE)
            ELSE CompareLoopFromEnd(m1, reference, output, i + 1, size)

\* The second loop: the first differing byte ends the process.
RECURSIVE CompareLoop(_, _, _, _, _)
CompareLoop(m, reference, output, i, size) ==
  IF ~Running(m) \/ ~(i < size) THEN m
  ELSE LET m1 == Log(m, Ev("cmp", NULL, i, <<>>))
       IN IF output[i + 1] # reference[i + 1]
            THEN Exit(Printf(m1, "differ", i, <<>>), EXIT_FAILURE)
            ELSE CompareLoop(m1, reference, output, i + 1, size)

TestLib_compare_and_print(m, reference, output, size, ok1, ok2, sig) ==
  LET str == MallocPtr(m, ok1)
      m1 == Malloc(m, 2 * size + 1, ok1)
      str_ref == MallocPtr(m1, ok2)
      m2 == Malloc(m1, 2 * size + 1, ok2)
      m3 == FormatLoop(m2, str, str_ref, reference, output, 0, size, sig)
      m4 == Store(m3, str, 2 * size, "NUL", sig)
      m5 == Store(m4, str_ref, 2 * size, "NUL", sig)
      m6 == PrintBoth(m5, str, str_ref, sig)
      m7 == CompareLoop(m6, reference, output, 0, size)
      m8 == Printf(m7, "success", 0, <<>>)
  IN Free(Free(m8, str), str_ref)

\* ------------------------------------------------------------------------
\* TestLib_check8/16/32/64 and TestLib_checku8/16/32/64
\* ------------------------------------------------------------------------
\* A scalar of width n is its two's-complement bit pattern, least
\* significant 16-bit limb first (one limb below 2^n for n = 8 and n = 16).
Widths == {8, 16, 32, 64}

Scalars(n) ==
  IF n = 8 THEN {<<v>> : v \in {0, 1, 127, 128, 255}}
  ELSE IF n = 16 THEN {<<v>> : v \in {0, 1, 255, 256, 32767, 32768, 65535}}
  ELSE IF n = 32 THEN LimbSample \X LimbSample
  ELSE {<<0, 0, 0, 0>>, <<1, 0, 0, 0>>, <<0, 1, 0, 0>>, <<0, 0, 1, 0>>,
        <<0, 0, 0, 32768>>, <<65535, 65535, 65535, 65535>>}

\* The integer promotions: an operand narrower than int becomes the int of
\* the same value (sign-extended when its type is signed).
Promote(n, signed, x) ==
  IF signed /\ x[1] >= 2 ^ (n - 1) THEN x[1] - 2 ^ n ELSE x[1]

\* A comparison of the low 16 bits only, as if both parameters were
\* declared with a 16-bit type whatever n is.
NotEqualLow16(n, signed, x, y) == x[1] # y[1]

\* x != y.  Operands narrower than int are promoted and compared as int;
\* 32- and 64-bit operands are compared in their own type, where two values
\* differ exactly when their bit patterns do.
NotEqual(n, signed, x, y) ==
  IF n < 32 THEN Promote(n, signed, x) # Promote(n, signed, y)
  ELSE x # y

\* MK_CHECK(n): void TestLib_check##n(int##n##_t x, int##n##_t y)
TestLib_check(m, n, x, y) ==
  IF NotEqual(n, TRUE, x, y)
    THEN Exit(Printf(m, "checkfail", 0, <<>>), CHECK_EXIT)
    ELSE m

\* MK_UCHECK(n): void TestLib_checku##n(uint##n##_t x, uint##n##_t y)
TestLib_checku(m, n, x, y) ==
  IF NotEqual(n, FALSE, x, y)
    THEN Exit(Printf(m, "checkfail", 0, <<>>), CHECK_EXIT)
    ELSE m

\* ------------------------------------------------------------------------
\* TestLib_unsafe_malloc and the functions that only print
\* ------------------------------------------------------------------------
\* An allocator that returns whatever malloc returned, NULL included.
UncheckedMalloc(m, size, ok) == Malloc(m, size, ok)

TestLib_unsafe_malloc(m, size, ok) ==
  LET memblob == MallocPtr(m, ok)
      m1 == Malloc(m, size, ok)
  IN IF memblob = NULL
       THEN Exit(Printf(m1, "warning", 0, <<>>), EXIT_FAILURE)
       ELSE m1

\* The value TestLib_unsafe_malloc returns when it returns.
UnsafeMallocResult(m, ok) == MallocPtr(m, ok)

TestLib_touch(m, x) == m

\* The printed quotient is a floating-point number; the event keeps the
\* difference of the two samples.
TestLib_print_clock_diff(m, t1, t2) == Printf(m, "clock", t2 - t1, <<>>)

TestLib_perr(m, err_code) == Printf(m, "perr", err_code, <<>>)

\* The division is a floating-point division: rounds = 0 gives an infinity
\* or a NaN and does not end the process.  The event keeps rounds.
TestLib_print_cycles_per_round(m, c1, c2, rounds) ==
  Printf(m, "cycles", rounds, <<>>)

\* ------------------------------------------------------------------------
\* The calls
\* ------------------------------------------------------------------------
Buffers(size) == [1..size -> ByteSample]

\* The record of a call: the function, a number (width or size), two
\* operands (buffers or scalars) and the outcome of each malloc of the call.
Call(fn, n, a, b, ok) == [fn |-> fn, n |-> n, a |-> a, b |-> b, ok |-> ok]

\* The process state after a call that ran to the machine state m and, if
\* it returned, returned v.
Finish(c, m, v) ==
  /\ status' = m.status
  /\ exit' = m.exit
  /\ live' = m.live
  /\ trace' = m.trace
  /\ call' = c
  /\ ret' = IF Running(m) THEN <<v>> ELSE <<>>
  /\ UNCHANGED offVars

CallPrintBuf ==
  /\ status = "running"
  /\ live < MaxLive
  /\ \E size \in 0..MaxSize, ok \in BOOLEAN, sig \in FaultSignals :
       \E buf \in [1..size -> PrintBufSample] :
         Finish(Call("print_buf", size, buf, <<>>, <<ok>>),
                print_buf(Machine(live), buf, size, ok, sig), 0)

CallCompareAndPrint ==
  /\ status = "running"
  /\ \E size \in 0..MaxSize, ok1 \in BOOLEAN, ok2 \in BOOLEAN,
        sig \in FaultSignals :
       \E reference \in Buffers(size), output \in Buffers(size) :
         Finish(Call("TestLib_compare_and_print", size, reference, output,
                     <<ok1, ok2>>),
                TestLib_compare_and_print(Machine(live), reference, output,
                                          size, ok1, ok2, sig), 0)

CallCheck ==
  /\ status = "running"
  /\ \E n \in Widths : \E x \in Scalars(n), y \in Scalars(n) :
       Finish(Call("TestLib_check", n, x, y, <<>>),
              TestLib_check(Machine(live), n, x, y), 0)

CallChecku ==
  /\ status = "running"
  /\ \E n \in Widths : \E x \in Scalars(n), y \in Scalars(n) :
       Finish(Call("TestLib_checku", n, x, y, <<>>),
              TestLib_checku(Machine(live), n, x, y), 0)

CallUnsafeMalloc ==
  /\ status = "running"
  /\ live < MaxLive
  /\ \E size \in 0..MaxSize, ok \in BOOLEAN :
       Finish(Call("TestLib_unsafe_malloc", size, <<>>, <<>>, <<ok>>),
              TestLib_unsafe_malloc(Machine(live), size, ok),
              UnsafeMallocResult(Machine(live), ok))

CallTouch ==
  /\ status = "running"
  /\ \E x \in {-1, 0, 1} :
       Finish(Call("TestLib_touch", x, <<>>, <<>>, <<>>),
              TestLib_touch(Machine(live), x), 0)

CallPrintClockDiff ==
  /\ status = "running"
  /\ \E t1 \in 0..1, t2 \in 0..1 :
       Finish(Call("TestLib_print_clock_diff", 0, <<t1>>, <<t2>>, <<>>),
              TestLib_print_clock_diff(Machine(live), t1, t2), 0)

CallPerr ==
  /\ status = "running"
  /\ \E err_code \in 0..1 :
       Finish(Call("TestLib_perr", err_code, <<>>, <<>>, <<>>),
              TestLib_perr(Machine(live), err_code), 0)

CallPrintCyclesPerRound ==
  /\ status = "running"
  /\ \E c1 \in 0..1, c2 \in 0..1, rounds \in 0..1 :
       Finish(Call("TestLib_print_cycles_per_round", rounds, <<c1>>, <<c2>>,
                   <<>>),
              TestLib_print_cycles_per_round(Machine(live), c1, c2, rounds),
              0)

\* ------------------------------------------------------------------------
\* The process
\* ------------------------------------------------------------------------
OffIdle ==
  /\ ofn = "none" /\ osize = <<>> /\ olen = <<>> /\ oi = <<>>
  /\ opc = "idle" /\ owrites = {} /\ oub = "none" /\ ostep = 0

Init ==
  /\ status = "running"
  /\ exit = <<>>
  /\ live = 0
  /\ call = Call("none", 0, <<>>, <<>>, <<>>)
  /\ trace = <<>>
  /\ ret = <<>>
  /\ OffIdle

Next ==
  \/ CallPrintBuf
  \/ CallCompareAndPrint
  \/ CallCheck
  \/ CallChecku
  \/ CallUnsafeMalloc
  \/ CallTouch
  \/ CallPrintClockDiff
  \/ CallPerr
  \/ CallPrintCyclesPerRound

Spec == Init /\ [][Next]_vars

\* ------------------------------------------------------------------------
\* The index arithmetic of the two formatting functions, at full width
\* ------------------------------------------------------------------------
\* The calls above run on buffers of a few bytes, where 2 * size + 1 and
\* 2 * i are far from the limits of int.  This part follows the same lines
\* of print_buf and TestLib_compare_and_print for sizes up to INT_MAX and
\* keeps only the numbers: the length passed to malloc, the loop index and
\* the positions each statement writes.  A 64-bit word is four 16-bit limbs,
\* least significant first; an int is kept sign-extended to 64 bits.
\* (int is 32 bits and size_t 64 bits wide, as on the LP64 platforms.)
B16 == 2 ^ 16
B15 == 2 ^ 15

FromNat(v) == <<v % B16, v \div B16, 0, 0>>
One64 == FromNat(1)

\* a + b modulo 2^64.
Add64(a, b) ==
  LET s1 == a[1] + b[1]
      s2 == a[2] + b[2] + (s1 \div B16)
      s3 == a[3] + b[3] + (s2 \div B16)
      s4 == a[4] + b[4] + (s3 \div B16)
  IN <<s1 % B16, s2 % B16, s3 % B16, s4 % B16>>

Neg64(a) == a[4] >= B15

\* a < b, both unsigned.
ULess(a, b) ==
  \E k \in 1..4 : a[k] < b[k] /\ \A j \in (k + 1)..4 : a[j] = b[j]

\* a < b, both signed.
SLess(a, b) == IF Neg64(a) # Neg64(b) THEN Neg64(a) ELSE ULess(a, b)

\* Whether the signed 64-bit value a is a value of int.
FitsInt(a) ==
  \/ a[3] = 0 /\ a[4] = 0 /\ a[2] < B15
  \/ a[3] = B16 - 1 /\ a[4] = B16 - 1 /\ a[2] >= B15

\* The int with the low 32 bits of a.
WrapInt(a) ==
  LET ext == IF a[2] >= B15 THEN B16 - 1 ELSE 0 IN <<a[1], a[2], ext, ext>>

\* What a build makes of a signed overflow, which is undefined behaviour:
\* the result wraps to 32 bits, the computation is carried out in a 64-bit
\* register, or the overflow traps (-ftrapv).
OverflowOutcomes == {"wrap", "wide", "trap"}

\* The value of an int expression whose exact value is e.
IntValue(e, ub) ==
  IF FitsInt(e) \/ ub = "wide" THEN e ELSE WrapInt(e)

IntTraps(e, ub) == ~FitsInt(e) /\ ub = "trap"

\* 2 * x and x + 1, exact, for an int x.
Twice(x) == Add64(x, x)
Succ(x) == Add64(x, One64)

\* malloc's argument.  print_buf: 2 * size + 1 in size_t arithmetic.
\* TestLib_compare_and_print: 2 * size + 1 in int arithmetic, then
\* converted to size_t.
AllocLen(fn, size, ub) ==
  IF fn = "print_buf" THEN Succ(Twice(size))
  ELSE IntValue(Succ(IntValue(Twice(size), ub)), ub)

AllocTraps(fn, size, ub) ==
  /\ fn # "print_buf"
  /\ \/ IntTraps(Twice(size), ub)
     \/ IntTraps(Succ(IntValue(Twice(size), ub)), ub)

\* The loop condition i < size.  print_buf compares its int i with a size_t
\* (i is converted to size_t); TestLib_compare_and_print compares two ints.
LoopCond(fn, i, size) ==
  IF fn = "print_buf" THEN ULess(i, size) ELSE SLess(i, size)

\* The positions sprintf(str + 2 * i, "%02x", b) writes: two digits and the
\* terminator, from the int offset 2 * i on.
SprintfPositions(i, ub) ==
  LET off == IntValue(Twice(i), ub)
  IN {off, Succ(off), Succ(Succ(off))}

\* The position of str[2 * size] = '\0': 2 * size is a size_t in print_buf
\* and an int in TestLib_compare_and_print.
TerminatorPosition(fn, size, ub) ==
  IF fn = "print_buf" THEN Twice(size) ELSE IntValue(Twice(size), ub)

\* Sizes near the point where 2 * size + 1 leaves int, and loop indices near
\* the point where 2 * i does.
SizeSample ==
  {FromNat(v) : v \in {0, 1, 2, 3, 2 ^ 30 - 1, 2 ^ 30, 2 ^ 30 + 1,
                       2 ^ 30 + 2, 1073741823 + 1073741824}}
IndexSample == {FromNat(v) : v \in {0, 1, 2, 2 ^ 30 - 2, 2 ^ 30 - 1, 2 ^ 30}}

\* How many iterations of a loop one run of the index arithmetic follows.
MaxIter == 3

\* The function has allocated its strings and run i iterations of its
\* formatting loop.  No iteration below 2^30 overflows (2 * i and ++i stay
\* within int), so every i up to min(size, 2^30) is reached by the loop.
OffInit ==
  \E fn \in {"print_buf", "TestLib_compare_and_print"},
     size \in SizeSample, i \in IndexSample, ub \in OverflowOutcomes :
    /\ ~ULess(size, i)
    /\ ofn = fn /\ osize = size /\ oi = i /\ oub = ub
    /\ olen = AllocLen(fn, size, ub)
    /\ opc = IF AllocTraps(fn, size, ub) THEN "killed" ELSE "loop"
    /\ owrites = {} /\ ostep = 0

\* One iteration of the formatting loop: the body, then ++i.
OffIter ==
  /\ opc = "loop"
  /\ ostep < MaxIter
  /\ LoopCond(ofn, oi, osize)
  /\ ostep' = ostep + 1
  /\ IF IntTraps(Twice(oi), oub) \/ IntTraps(Succ(oi), oub)
       THEN opc' = "killed" /\ owrites' = {} /\ oi' = oi
       ELSE /\ opc' = "loop"
            /\ owrites' = SprintfPositions(oi, oub)
            /\ oi' = IntValue(Succ(oi), oub)
  /\ UNCHANGED <<ofn, osize, olen, oub>>
  /\ UNCHANGED mainVars

\* The loop ends; the terminator is stored at 2 * size.
OffTerminator ==
  /\ opc = "loop"
  /\ ~LoopCond(ofn, oi, osize)
  /\ IF ofn # "print_buf" /\ IntTraps(Twice(osize), oub)
       THEN opc' = "killed" /\ owrites' = {}
       ELSE /\ opc' = "done"
            /\ owrites' = {TerminatorPosition(ofn, osize, oub)}
  /\ UNCHANGED <<ofn, osize, olen, oi, oub, ostep>>
  /\ UNCHANGED mainVars

MainIdle ==
  /\ status = "running" /\ exit = <<>> /\ live = 0
  /\ call = Call("none", 0, <<>>, <<>>, <<>>)
  /\ trace = <<>> /\ ret = <<>>

InitOffsets == MainIdle /\ OffInit
NextOffsets == OffIter \/ OffTerminator
SpecOffsets == InitOffsets /\ [][NextOffsets]_vars

\* ------------------------------------------------------------------------
\* Vocabulary of the properties
\* ------------------------------------------------------------------------
\* The events that are lines of output.
OutKinds == {"buf", "expected", "computed", "differ", "success",
             "checkfail", "warning", "clock", "perr", "cycles"}

At(kind) == {k \in DOMAIN trace : trace[k].ev = kind}
Count(kind) == Cardinality(At(kind))

Returned == status = "running" /\ ret # <<>>
IsCheck == call.fn \in {"TestLib_check", "TestLib_checku"}
IsCompare == call.fn = "TestLib_compare_and_print"

\* The indices at which the two buffers of a compare call differ.
Mismatches == {i \in 0..(call.n - 1) : call.b[i + 1] # call.a[i + 1]}
FirstMismatch == CHOOSE i \in Mismatches : \A j \in Mismatches : i <= j

\* ------------------------------------------------------------------------
\* C1
\* ------------------------------------------------------------------------
\* C1: a scalar check ends the process with exit code 253, after printing
\* exactly one 'Test check failure' line, if and only if its two arguments
\* differ; with equal arguments it returns, prints nothing and the process
\* goes on.
C1_CheckExitsIffDifferent ==
  IsCheck =>
    /\ (status = "exited" /\ exit = <<253>> /\ Count("checkfail") = 1)
         <=> (call.a # call.b)
    /\ (call.a = call.b) => (Returned /\ trace = <<>>)
    /\ (call.a # call.b) =>
         (\A k \in DOMAIN trace : trace[k].ev \in {"checkfail", "exit"})

C1_Witness ==
  /\ call.fn = "TestLib_check" /\ call.n = 64
  /\ call.a # call.b /\ call.a[1] = call.b[1]
  /\ status = "exited" /\ exit = <<253>>

\* ------------------------------------------------------------------------
\* C2
\* ------------------------------------------------------------------------
\* C2: a compare call prints the success message and returns if and only
\* if the buffers agree on 0..size-1; otherwise it prints the 'differ at
\* byte' message, ends the process with EXIT_FAILURE and never prints the
\* success message.
C2_SuccessIffEqual ==
  IsCompare =>
    /\ (Count("success") = 1 /\ Returned) <=> (Mismatches = {})
    /\ (Mismatches # {}) =>
         /\ Count("differ") = 1
         /\ status = "exited" /\ exit = <<EXIT_FAILURE>>
         /\ Count("success") = 0

\* ------------------------------------------------------------------------
\* C3
\* ------------------------------------------------------------------------
\* C3: a compare call on buffers that differ does not return; the index a
\* 'differ at byte' message reports is the smallest index at which the
\* buffers differ, and no byte at a greater index is compared.
C3_FirstMismatch ==
  (IsCompare /\ Mismatches # {}) =>
    /\ ~Returned
    /\ Count("differ") <= 1
    /\ \A k \in At("differ") : trace[k].n = FirstMismatch
    /\ \A k \in At("cmp") : trace[k].n <= FirstMismatch

C3_Witness ==
  /\ IsCompare /\ call.n = 2
  /\ Mismatches = {0, 1}
  /\ Count("differ") = 1 /\ Count("cmp") = 1

\* ------------------------------------------------------------------------
\* C4
\* ------------------------------------------------------------------------
\* C4: whatever calls were made and however the last one ended, no block
\* allocated by the library is still allocated, and no call has handed a
\* block to its caller.
C4_NoLiveBlocks ==
  /\ live = 0
  /\ ret \in {<<>>, <<0>>}

\* ------------------------------------------------------------------------
\* C5
\* ------------------------------------------------------------------------
\* C5: TestLib_unsafe_malloc never returns NULL; when malloc fails it
\* prints the warning and ends the process with EXIT_FAILURE, and when
\* malloc succeeds it returns the block malloc returned and the process
\* goes on.
C5_UnsafeMallocNeverNull ==
  (call.fn = "TestLib_unsafe_malloc") =>
    /\ ret # <<NULL>>
    /\ Count("malloc") = 1
    /\ \A k \in At("malloc") :
         IF trace[k].ptr = NULL
           THEN /\ status = "exited" /\ exit = <<EXIT_FAILURE>>
                /\ Count("warning") = 1 /\ ret = <<>>
           ELSE /\ Returned /\ ret = <<trace[k].ptr>>
                /\ Count("warning") = 0

C5_Witness ==
  /\ call.fn = "TestLib_unsafe_malloc"
  /\ ~call.ok[1]
  /\ status = "exited" /\ Count("warning") = 1

\* ------------------------------------------------------------------------
\* C6
\* ------------------------------------------------------------------------
\* C6: once a malloc of a call has returned NULL, the process ends within
\* that call, without any later store or load through NULL and without any
\* later output (other than TestLib_unsafe_malloc's warning).
C6_AllocFailureEndsProcess ==
  \A k \in At("malloc") :
    (trace[k].ptr = NULL) =>
      /\ status = "exited"
      /\ \A j \in DOMAIN trace :
           (j > k) =>
             /\ ~(trace[j].ev \in {"store", "load"} /\ trace[j].ptr = NULL)
             /\ (trace[j].ev \in OutKinds => trace[j].ev = "warning")

\* ------------------------------------------------------------------------
\* C7
\* ------------------------------------------------------------------------
\* The hexadecimal string of a buffer, as the claim states it.
IsHexOf(s, buf, size) ==
  /\ Len(s) = 2 * size
  /\ \A i \in 0..(size - 1) :
       /\ s[2 * i + 1] = HexChars[(buf[i + 1] \div 16) + 1]
       /\ s[2 * i + 2] = HexChars[(buf[i + 1] % 16) + 1]

\* C7: every hex string printed is the 2*size lowercase hex digits of its
\* buffer, high nibble first, in buffer order; print_buf's from buf, the
\* 'expected' line's from reference and the 'computed' line's from output.
C7_HexFormat ==
  /\ \A k \in At("buf") : IsHexOf(trace[k].s, call.a, call.n)
  /\ \A k \in At("expected") : IsHexOf(trace[k].s, call.a, call.n)
  /\ \A k \in At("computed") : IsHexOf(trace[k].s, call.b, call.n)

C7_Witness ==
  /\ IsCompare /\ call.n = 2
  /\ call.a = <<10, 175>> /\ call.b = <<175, 10>>
  /\ Count("expected") = 1 /\ Count("computed") = 1

\* ------------------------------------------------------------------------
\* C8
\* ------------------------------------------------------------------------
Verdicts == At("differ") \cup At("success")

\* C8: in a compare call the 'expected' line and then the 'computed' line
\* are printed, each exactly once, before any byte is compared; exactly one
\* verdict (success, or 'differ at byte' followed by the end of the
\* process) follows them; nothing is printed after the verdict.
C8_EventOrder ==
  IsCompare =>
    /\ Count("expected") = 1 /\ Count("computed") = 1
    /\ \A e \in At("expected"), c \in At("computed") :
         /\ e < c
         /\ \A k \in At("cmp") \cup Verdicts : c < k
    /\ Cardinality(Verdicts) = 1
    /\ \A v \in Verdicts :
         /\ \A k \in DOMAIN trace :
              (k > v) => trace[k].ev \notin OutKinds
         /\ (trace[v].ev = "differ") => status = "exited"

\* ------------------------------------------------------------------------
\* C9
\* ------------------------------------------------------------------------
\* The three failure conditions, read off the arguments of the call.
MetFailure ==
  \/ IsCompare /\ Mismatches # {}
  \/ IsCheck /\ call.a # call.b
  \/ call.fn = "TestLib_unsafe_malloc" /\ ~call.ok[1]

\* C9: the process has ended if and only if the last call met one of the
\* three failure conditions; it then ended by exit(), with code 253 exactly
\* for a scalar inequality and EXIT_FAILURE otherwise; and print_buf,
\* TestLib_touch, TestLib_perr, TestLib_print_clock_diff and
\* TestLib_print_cycles_per_round return to their caller.
C9_TerminationCauses ==
  /\ (status # "running") <=> MetFailure
  /\ MetFailure =>
       /\ status = "exited"
       /\ exit = IF IsCheck THEN <<253>> ELSE <<EXIT_FAILURE>>
  /\ (call.fn \in {"print_buf", "TestLib_touch", "TestLib_perr",
                   "TestLib_print_clock_diff",
                   "TestLib_print_cycles_per_round"}) => Returned

\* ------------------------------------------------------------------------
\* C10
\* ------------------------------------------------------------------------
InBounds(pos, len) == ~Neg64(pos) /\ ULess(pos, len)

\* C10: every position the formatting loop and the final terminator write
\* is >= 0 and below the length passed to malloc.
C10_WritesInBounds == \A pos \in owrites : InBounds(pos, olen)

====
